---- MODULE Spec2Model ----
(***************************************************************************)
(* Model of fastapi-proxy/main.py: a caching proxy in front of the Laravel *)
(* recipe search API.  Six read-through cached search endpoints, the       *)
(* parallel enhanced search, and the two cache management endpoints.       *)
(*                                                                         *)
(* Handlers are coroutines on one event loop.  A handler runs atomically   *)
(* up to its `await http_client.post(...)`; the Redis client is the        *)
(* synchronous one, so a cache get/set/flush never yields.  Hence one      *)
(* action for the part of a handler before the upstream call and one for   *)
(* the part after it.                                                      *)
(***************************************************************************)
EXTENDS Integers, Sequences, FiniteSets, TLC

VARIABLES
    started,       \* startup_event has run
    http_client,   \* the global http_client is set (not None)
    redis_client,  \* the global redis_client is set (not None)
    storeUp,       \* the Redis server answers (otherwise every command raises)
    cache,         \* the Redis database: key -> [value, ttl]
    reqs,          \* per slot, the request in flight (awaiting the upstream)
    nreq,          \* search requests received so far
    last,          \* the request answered by the latest step, with its response
    origin,        \* history: per cached key, the upstream payload it was written from
    producer,      \* history: per cached key, the request and the upstream call that wrote it
    sinceClear,    \* history: what happened since the last successful /cache/clear
    completion,    \* history: the order in which the sub-searches of a request ended
    derived        \* the cache keys derived from a mapping in two insertion orders

vars == <<started, http_client, redis_client, storeUp, cache, reqs, nreq, last,
          origin, producer, sinceClear, completion, derived>>

----------------------------------------------------------------------------
(* Program constants *)

CACHE_TTL == 3600

(* Bounds of the model *)

MaxRequests == 2       \* search requests received in one behaviour
MaxResults == 2        \* longest result list of a sub-search of enhanced search

\* Up to two requests are in flight at the same time.
Slots == {1, 2}

\* Seconds that pass in one Tick: an entry lives through one Tick, not two.
TickStep == CACHE_TTL \div 2

\* The values a measured response_time_ms takes: a request answered without
\* an upstream call can take less than a millisecond, one that waited for
\* the upstream does not.
ElapsedMs == {0, 1}
ElapsedMsUpstream == {1}

(* Request inputs.  "" and the limits 0 and 51 are rejected by the request *)
(* models; the path/query parameters of /search/similar are any integers.  *)
Texts == {"", "egg"}
Limits == {0, 2, 51}
RecipeIds == {7}
SimilarLimits == {0, 5}

(* What the upstream can answer. *)
UpstreamErrorStatuses == {404, 503}
Recipe(id, score) == [recipe_id |-> id, similarity_score |-> score]

\* Recipe 1 is found with two scores, recipes 1 and 2 with the same score,
\* and three recipes are more than a limit of 2.
Recipes == {Recipe(1, 1), Recipe(1, 2), Recipe(2, 2), Recipe(3, 1)}

RECURSIVE SeqsUpTo(_, _)
SeqsUpTo(S, n) ==
    IF n = 0 THEN {<<>>}
    ELSE LET shorter == SeqsUpTo(S, n - 1)
         IN  shorter \cup {Append(s, x) : s \in {t \in shorter : Len(t) = n - 1}, x \in S}

\* result lists of the sub-searches of enhanced search
ResultLists == SeqsUpTo(Recipes, MaxResults)

\* result lists of the single-operation endpoints: two versions of the data
SimpleLists == { <<Recipe(1, 2)>>, <<Recipe(2, 2), Recipe(1, 1)>> }

\* limits of the requests to /search/enhanced
EnhancedLimits == {0, 1, 2, 51}

----------------------------------------------------------------------------
(* JSON and the cache key *)

JStr(s) == [t |-> "str", v |-> s]
JInt(n) == [t |-> "int", v |-> n]

Digits == <<"0", "1", "2", "3", "4", "5", "6", "7", "8", "9">>

RECURSIVE NatToStr(_)
NatToStr(n) ==
    IF n < 10 THEN Digits[n + 1]
    ELSE NatToStr(n \div 10) \o Digits[(n % 10) + 1]

IntToStr(n) == IF n < 0 THEN "-" \o NatToStr(0 - n) ELSE NatToStr(n)

\* Faulty variant: a string that spells a digit is written as the number.
JsonScalar_Unquoted(x) ==
    IF x.t = "str" /\ \E d \in 1..Len(Digits) : Digits[d] = x.v THEN x.v
    ELSE IF x.t = "str" THEN "\"" \o x.v \o "\""
    ELSE IntToStr(x.v)

\* json.dumps of a scalar: a string is quoted, an integer is not.  None of
\* the texts of the model holds a character that JSON escapes.
JsonScalar(x) == IF x.t = "str" THEN "\"" \o x.v \o "\"" ELSE IntToStr(x.v)

\* Lexicographic order of the parameter names the handlers use.
KeyRank ==
    "cuisine" :> 1 @@ "dish" :> 2 @@ "ingredients" :> 3 @@ "limit" :> 4
    @@ "q" :> 5 @@ "query" :> 6 @@ "recipe_id" :> 7

\* A dict is the sequence of its <<name, value>> items in insertion order.
\* sort_keys=True: the items by ascending name.
SortKeys(data) ==
    [i \in 1..Len(data) |->
        CHOOSE item \in {data[j] : j \in 1..Len(data)} :
            Cardinality({j \in 1..Len(data) :
                            KeyRank[data[j][1]] < KeyRank[item[1]]}) = i - 1]

RECURSIVE JsonItems(_)
JsonItems(items) ==
    IF items = <<>> THEN ""
    ELSE "\"" \o Head(items)[1] \o "\": " \o JsonScalar(Head(items)[2])
         \o (IF Len(items) > 1 THEN ", " ELSE "") \o JsonItems(Tail(items))

\* Faulty variant: sort_keys is left out, so the items come in insertion order.
JsonDumpsSorted_InsertionOrder(data) == "{" \o JsonItems(data) \o "}"

\* json.dumps(data, sort_keys=True) of a flat dict
JsonDumpsSorted(data) == "{" \o JsonItems(SortKeys(data)) \o "}"

\* hashlib.md5(s.encode()).hexdigest(): the digests of the strings the model
\* can build, with the keys of the dict in ascending order and, below them,
\* in descending order.
MD5Table ==
    "ingredients:{\"ingredients\": \"egg\", \"limit\": 1}" :> "15bb08d133a9267229097c220d102610"
    @@ "ingredients:{\"ingredients\": \"egg\", \"limit\": 2}" :> "77f93e035ef448a61b5f54ca5bd7ad4b"
    @@ "ingredients:{\"ingredients\": \"egg\", \"limit\": 3}" :> "d40fe85446597a430df96c1f66cec7ab"
    @@ "ingredients:{\"ingredients\": \"rice\", \"limit\": 1}" :> "28c29256e731937c4c1f19f5b470a976"
    @@ "ingredients:{\"ingredients\": \"rice\", \"limit\": 2}" :> "200fd41cd7cbdfa90aa43bef31aca9d3"
    @@ "ingredients:{\"ingredients\": \"rice\", \"limit\": 3}" :> "8be69d86b64e6d21d5b60d7a90674e0f"
    @@ "cuisine:{\"cuisine\": \"egg\", \"limit\": 1}" :> "8080ad58d59423ffb81fd8936fd42cdc"
    @@ "cuisine:{\"cuisine\": \"egg\", \"limit\": 2}" :> "ceca91b4e885e8e64b7ec86a496e4c97"
    @@ "cuisine:{\"cuisine\": \"egg\", \"limit\": 3}" :> "f72094eae6cb5ca7fd38d63c19a9f8a2"
    @@ "cuisine:{\"cuisine\": \"rice\", \"limit\": 1}" :> "28a298df58d38b5bd1144f6f331b22cc"
    @@ "cuisine:{\"cuisine\": \"rice\", \"limit\": 2}" :> "98eeb150025d7f475113a24ded2a1ef0"
    @@ "cuisine:{\"cuisine\": \"rice\", \"limit\": 3}" :> "dc72b86876a91fc2d3db779136da0c07"
    @@ "dish:{\"dish\": \"egg\", \"limit\": 1}" :> "4ef426c7b0003ceccfce500b574acb5e"
    @@ "dish:{\"dish\": \"egg\", \"limit\": 2}" :> "26cecfa2d99cf3bc074bb273f6487ea7"
    @@ "dish:{\"dish\": \"egg\", \"limit\": 3}" :> "ae24eb934a174d098d25675c0ca514bc"
    @@ "dish:{\"dish\": \"rice\", \"limit\": 1}" :> "4b2fb99231b79479536b35039cc51a9e"
    @@ "dish:{\"dish\": \"rice\", \"limit\": 2}" :> "c76fd1be47e35ed05e61a6def88b58e6"
    @@ "dish:{\"dish\": \"rice\", \"limit\": 3}" :> "02cebfffb07bbf2bf15d467594f6c884"
    @@ "general:{\"limit\": 1, \"query\": \"egg\"}" :> "7102bb672673936120f83c7e2abc0bfd"
    @@ "general:{\"limit\": 2, \"query\": \"egg\"}" :> "48b6aff9191ac78a06bb2781c4601104"
    @@ "general:{\"limit\": 3, \"query\": \"egg\"}" :> "1ec9e474c8aa7d61803645d925253397"
    @@ "general:{\"limit\": 1, \"query\": \"rice\"}" :> "4fd8097cf843eb466be3773df89b62b5"
    @@ "general:{\"limit\": 2, \"query\": \"rice\"}" :> "6519b9f1caadfe3b6bbffb87ca155f47"
    @@ "general:{\"limit\": 3, \"query\": \"rice\"}" :> "583930eeaa7c9a91c13f6b0ad29dcb7a"
    @@ "hybrid:{\"limit\": 1, \"query\": \"egg\"}" :> "0541d58a3a4975e59b43018086bc976d"
    @@ "hybrid:{\"limit\": 2, \"query\": \"egg\"}" :> "ba5626ec717416cf35754b705692523d"
    @@ "hybrid:{\"limit\": 3, \"query\": \"egg\"}" :> "0afccf0f75ad419a2fb90ef023152d8f"
    @@ "hybrid:{\"limit\": 1, \"query\": \"rice\"}" :> "2a3412c80cacacfeead612d617555c2a"
    @@ "hybrid:{\"limit\": 2, \"query\": \"rice\"}" :> "3530228979b300c983f54fbf07ae4203"
    @@ "hybrid:{\"limit\": 3, \"query\": \"rice\"}" :> "01cc2cb434cb39d089ddca7179b346c7"
    @@ "similar:{\"limit\": 0, \"recipe_id\": 7}" :> "2ea32007edc63f04203b139ca74c5602"
    @@ "similar:{\"limit\": 1, \"recipe_id\": 7}" :> "4b5cb072e2688b3754d22b9ac069b1e8"
    @@ "similar:{\"limit\": 5, \"recipe_id\": 7}" :> "f470cc1044fbaabde2d04181ad648cac"
    @@ "similar:{\"limit\": 0, \"recipe_id\": 8}" :> "4210423a839cc8fed4fa47431518be0d"
    @@ "similar:{\"limit\": 1, \"recipe_id\": 8}" :> "1db32accd9896e0a2876c2f89c4a3841"
    @@ "similar:{\"limit\": 5, \"recipe_id\": 8}" :> "f8011d4aabfb6843dac38c567688e90a"
    @@ "similar:{\"limit\": \"5\", \"recipe_id\": 7}" :> "0b54c494c622a4da033d40fc084163d2"
    @@ "general:{\"limit\": \"1\", \"query\": \"egg\"}" :> "33a3d9e2fba7af20c1c07698f1b73688"
    @@ "ingredients:{\"limit\": 1, \"ingredients\": \"egg\"}" :> "3ae3275818e13f8caa60773d6ec915a0"
    @@ "ingredients:{\"limit\": 2, \"ingredients\": \"egg\"}" :> "81a40f60e71c9a6d33a53e96abacea14"
    @@ "ingredients:{\"limit\": 3, \"ingredients\": \"egg\"}" :> "b951500ca209f6a4be704bff38a0912b"
    @@ "ingredients:{\"limit\": 1, \"ingredients\": \"rice\"}" :> "ada58d644069c1bcda96d88f5f291ec0"
    @@ "ingredients:{\"limit\": 2, \"ingredients\": \"rice\"}" :> "c42c6aa7ac088f726a20cc968fb9c997"
    @@ "ingredients:{\"limit\": 3, \"ingredients\": \"rice\"}" :> "50c6905c4f2f3498770c795cd6113006"
    @@ "cuisine:{\"limit\": 1, \"cuisine\": \"egg\"}" :> "6e5a2df3040e39c343f80088d31b6df3"
    @@ "cuisine:{\"limit\": 2, \"cuisine\": \"egg\"}" :> "938cb746fc0b7ea3644f6fc58bd99405"
    @@ "cuisine:{\"limit\": 3, \"cuisine\": \"egg\"}" :> "f0631791930bd25f17b37b3e6280fbd8"
    @@ "cuisine:{\"limit\": 1, \"cuisine\": \"rice\"}" :> "7a82045fd96128f3d410b4e903f19a0a"
    @@ "cuisine:{\"limit\": 2, \"cuisine\": \"rice\"}" :> "90fe2f9820f9c788191c71b7943b6581"
    @@ "cuisine:{\"limit\": 3, \"cuisine\": \"rice\"}" :> "54f6db1e7a54450203f9f6b4dc8aa644"
    @@ "dish:{\"limit\": 1, \"dish\": \"egg\"}" :> "ffd9610dc11dc27b77c119362db73d2c"
    @@ "dish:{\"limit\": 2, \"dish\": \"egg\"}" :> "797d84cf74df2e2a6b28eca1c92b4ad4"
    @@ "dish:{\"limit\": 3, \"dish\": \"egg\"}" :> "c04b62bbe490af7688324cec90817e0d"
    @@ "dish:{\"limit\": 1, \"dish\": \"rice\"}" :> "134e238c6ca8aae2954e78e9b49b209d"
    @@ "dish:{\"limit\": 2, \"dish\": \"rice\"}" :> "77b29184bec7870f0fc9334fb51df56c"
    @@ "dish:{\"limit\": 3, \"dish\": \"rice\"}" :> "782e5a6dca085fadb9473ad8f0e98351"
    @@ "general:{\"query\": \"egg\", \"limit\": 1}" :> "8ae1a9657d83ae73b85487587a0e4e7f"
    @@ "general:{\"query\": \"egg\", \"limit\": 2}" :> "46b22405ea321d48164f935e503ef9f9"
    @@ "general:{\"query\": \"egg\", \"limit\": 3}" :> "5191d226a8bb117ebd78f66d67caa906"
    @@ "general:{\"query\": \"rice\", \"limit\": 1}" :> "117cd237c3d2109170d448649dedc0c6"
    @@ "general:{\"query\": \"rice\", \"limit\": 2}" :> "e73ff71145959354e94868ca9fd89558"
    @@ "general:{\"query\": \"rice\", \"limit\": 3}" :> "a1f3b8b30d6587e5656f82308a0e3d85"
    @@ "hybrid:{\"query\": \"egg\", \"limit\": 1}" :> "7b7c7391b8c3bb73555e818e6ade2952"
    @@ "hybrid:{\"query\": \"egg\", \"limit\": 2}" :> "ef060647f8a383a737e3bed046ee96e8"
    @@ "hybrid:{\"query\": \"egg\", \"limit\": 3}" :> "ffba15817dab2ca18bede41bdd765db2"
    @@ "hybrid:{\"query\": \"rice\", \"limit\": 1}" :> "c1a823438f1aae90bdf25045f9a05448"
    @@ "hybrid:{\"query\": \"rice\", \"limit\": 2}" :> "1ae0352fe73deb069cf78757f45ddee4"
    @@ "hybrid:{\"query\": \"rice\", \"limit\": 3}" :> "21cf7264b09b6419e3aa98e36dbc0df9"
    @@ "similar:{\"recipe_id\": 7, \"limit\": 0}" :> "e4ba18d6c91c6c16a89e367355035509"
    @@ "similar:{\"recipe_id\": 7, \"limit\": 1}" :> "1d06b869f7001bffdfa5d8128caad832"
    @@ "similar:{\"recipe_id\": 7, \"limit\": 5}" :> "ca7b94aa2ce1c3eef16189f116e7163c"
    @@ "similar:{\"recipe_id\": 8, \"limit\": 0}" :> "3231e20db63c36df364bea69cd9b9408"
    @@ "similar:{\"recipe_id\": 8, \"limit\": 1}" :> "6c084b23546c1789f0845fdc5b983a32"
    @@ "similar:{\"recipe_id\": 8, \"limit\": 5}" :> "465e8a2a1673465bca41b3acebac12b3"
    @@ "similar:{\"recipe_id\": 7, \"limit\": \"5\"}" :> "968554c70a91ed5d26d89d363967f308"
    @@ "general:{\"query\": \"egg\", \"limit\": \"1\"}" :> "785bfd7e07399af3496bef5c6d6d0ece"

MD5(s) == MD5Table[s]

CacheString(endpoint, data) == endpoint \o ":" \o JsonDumpsSorted(data)

generate_cache_key(endpoint, data) == MD5(CacheString(endpoint, data))

----------------------------------------------------------------------------
(* Serialisation of a cached payload *)

\* The fields of a payload in the order the handler's dict holds them: the
\* upstream's fields, then "cached" and "response_time_ms" as assigned.
FieldOrder ==
    <<"query", "search_type", "results", "count", "cached", "response_time_ms">>

\* Faulty variant: the count is not serialised.
JsonDumps_DropsCount(result) ==
    LET present == SelectSeq(FieldOrder, LAMBDA f : f \in DOMAIN result /\ f # "count")
    IN  [i \in 1..Len(present) |-> <<present[i], result[present[i]]>>]

\* json.dumps(result): the members of the object, in dict order.
JsonDumps(result) ==
    LET present == SelectSeq(FieldOrder, LAMBDA f : f \in DOMAIN result)
    IN  [i \in 1..Len(present) |-> <<present[i], result[present[i]]>>]

\* json.loads(text): the dict of the members.
JsonLoads(text) ==
    [f \in {text[i][1] : i \in 1..Len(text)} |->
        (CHOOSE m \in {text[i] : i \in 1..Len(text)} : m[1] = f)[2]]

\* What a call gives: None, a value, or an exception that leaves it.
None == [tag |-> "none"]
Some(x) == [tag |-> "some", value |-> x]
Exception == [tag |-> "raised"]

\* Python truthiness of an Optional[dict]: None and {} are falsy.
Truthy(opt) == opt.tag = "some" /\ DOMAIN opt.value # {}

----------------------------------------------------------------------------
(* ResultCache: get_cached_result / set_cached_result *)

EmptyCache == [k \in {} |-> [value |-> <<>>, ttl |-> 0]]

\* redis_client.get(key): raises when the server does not answer.
RedisGet(cache_key) ==
    IF ~storeUp THEN Exception
    ELSE IF cache_key \in DOMAIN cache THEN Some(cache[cache_key].value)
    ELSE None

\* redis_client.setex(key, ttl, value): the database after it, or the exception.
RedisSetex(cache_key, ttl, value) ==
    IF ~storeUp THEN Exception
    ELSE Some((cache_key :> [value |-> value, ttl |-> ttl]) @@ cache)

\* Faulty variant: the cache is never read.
get_cached_result_NeverHits(cache_key) == None

\* Faulty variant: no try/except around the read.
get_cached_result_Unguarded(cache_key) ==
    IF ~redis_client THEN None
    ELSE LET cached_data == RedisGet(cache_key)
         IN  IF cached_data.tag = "some" /\ cached_data.value # <<>>
             THEN Some(JsonLoads(cached_data.value))
             ELSE cached_data

get_cached_result(cache_key) ==
    IF ~redis_client THEN None
    ELSE LET cached_data == RedisGet(cache_key)
         IN  IF cached_data.tag = "raised" THEN None       \* logged
             ELSE IF cached_data.tag = "some" /\ cached_data.value # <<>>
             THEN Some(JsonLoads(cached_data.value))
             ELSE None

\* Faulty variant: the entry is stored with half the TTL.
set_cached_result_HalfTTL(cache_key, data) ==
    IF ~redis_client THEN Some(cache)
    ELSE LET written == RedisSetex(cache_key, CACHE_TTL \div 2, JsonDumps(data))
         IN  IF written.tag = "raised" THEN Some(cache)
             ELSE written

\* set_cached_result(cache_key, data): the database after it (it returns
\* nothing), or an exception that leaves it.
set_cached_result(cache_key, data) ==
    IF ~redis_client THEN Some(cache)
    ELSE LET written == RedisSetex(cache_key, CACHE_TTL, JsonDumps(data))
         IN  IF written.tag = "raised" THEN Some(cache)    \* logged
             ELSE written

----------------------------------------------------------------------------
(* UpstreamClient: proxy_laravel_request *)

\* What http_client.post(endpoint, json=data) can do.
UpstreamPayload(endpoint, data, rs) ==
    [query |-> data[1][2].v, search_type |-> endpoint, results |-> rs, count |-> Len(rs)]

UpstreamBehaviours(endpoint, data, Lists, Statuses) ==
    {[kind |-> "json", json |-> UpstreamPayload(endpoint, data, rs)] : rs \in Lists}
    \cup {[kind |-> "status", status_code |-> s] : s \in Statuses}
    \cup {[kind |-> "request_error"]}

Returned(json) == [raised |-> FALSE, value |-> json]
Raised(status_code, detail) ==
    [raised |-> TRUE, status_code |-> status_code, detail |-> detail]

\* Faulty variant: a failure is returned as a payload instead of being raised.
proxy_laravel_request_ReturnsError(up) ==
    IF ~http_client THEN Raised(500, "HTTP client not initialized")
    ELSE IF up.kind = "json" THEN Returned(up.json)
    ELSE Returned([detail |-> "Laravel API error"])

\* Faulty variant: every upstream failure becomes a 500.
proxy_laravel_request_Always500(up) ==
    IF ~http_client THEN Raised(500, "HTTP client not initialized")
    ELSE IF up.kind = "json" THEN Returned(up.json)
    ELSE Raised(500, "Request failed")

\* The outcome of proxy_laravel_request when the upstream behaves as `up`.
proxy_laravel_request(up) ==
    IF ~http_client THEN Raised(500, "HTTP client not initialized")
    ELSE IF up.kind = "json" THEN Returned(up.json)
    ELSE IF up.kind = "status" THEN Raised(up.status_code, "Laravel API error")
    ELSE Raised(500, "Request failed")

----------------------------------------------------------------------------------------------------------------------------------------
(* Requests *)

CachedOps == {"ingredients", "cuisine", "dish", "general", "hybrid", "similar"}

NoResponse == [status |-> 0, body |-> [detail |-> "none"]]
Pending == [raised |-> FALSE, pending |-> TRUE]

Idle ==
    [pc |-> "idle", op |-> "none", params |-> <<>>, cache_key |-> "",
     calls |-> <<>>, resp |-> NoResponse]

NoAnswer == [kind |-> "none"]

\* An upstream call: what is sent, what the upstream did (`up`) and what
\* proxy_laravel_request gave the handler (`outcome`).
Call(endpoint, data) ==
    [endpoint |-> endpoint, data |-> data, up |-> NoAnswer, outcome |-> Pending]

\* The response of a handler that an exception leaves.
InternalServerError == [status |-> 500, body |-> [detail |-> "Internal Server Error"]]

HttpError(status_code, detail) ==
    [status |-> status_code, body |-> [detail |-> detail]]

Ok(body) == [status |-> 200, body |-> body]

\* A request as it ends with response `resp`.
Done(req, resp) == [req EXCEPT !.pc = "done", !.resp = resp]

\* Field(..., min_length=1, max_length=n)
ValidText(text, max_length) == Len(text) >= 1 /\ Len(text) <= max_length

\* Field(10, ge=1, le=50)
ValidLimit(limit) == limit >= 1 /\ limit <= 50

\* The slot a new request is served in: the first one with no request in flight.
FreeSlot(r) ==
    /\ reqs[r].pc = "idle"
    /\ \A q \in Slots : q < r => reqs[q].pc # "idle"

\* No /cache/clear has succeeded yet.  After one, `pending` holds the slots of
\* the requests that were in flight when it ran, `fresh` the keys that were
\* stored or being fetched when it ran and that no request has asked for
\* since, `rewritten` those of them that a request of `pending` has stored
\* since, and `first` the slots of the requests in flight that were the first
\* to ask for their key since.  The history is kept only in the behaviours
\* that start with `kept` set.
NotCleared ==
    [kept |-> FALSE, pending |-> {}, fresh |-> {}, rewritten |-> {}, first |-> {}]

\* The order in which the sub-searches of the enhanced search of each slot
\* have ended.  It is kept only in the behaviours that start with `kept` set.
NoCompletion == [kept |-> FALSE, order |-> [r \in Slots |-> <<>>]]

\* The proxy derives keys inside its handlers only.
NotDerived == [pc |-> "none"]

\* The process before startup_event, and the Redis server up or down.
InitProxy ==
    /\ started = FALSE
    /\ http_client = FALSE
    /\ redis_client = FALSE
    /\ storeUp \in BOOLEAN
    /\ cache = EmptyCache
    /\ reqs = [r \in Slots |-> Idle]
    /\ nreq = 0
    /\ last = Idle
    /\ origin = EmptyCache
    /\ producer = EmptyCache

Init ==
    /\ InitProxy
    /\ sinceClear = NotCleared
    /\ completion = NoCompletion
    /\ derived = NotDerived

\* startup_event: the clients are created; a failed ping leaves caching off.
startup_event ==
    /\ ~started
    /\ started' = TRUE
    /\ http_client' = TRUE
    /\ redis_client' = storeUp
    /\ last' = Idle
    /\ UNCHANGED <<storeUp, cache, reqs, nreq, origin, producer, sinceClear, completion, derived>>

\* Faulty variant: a payload that already has a cached flag keeps it.
Annotate_KeepsFlag(json, c, ms) ==
    [f \in DOMAIN json \cup {"cached", "response_time_ms"} |->
        IF f = "cached" THEN (IF "cached" \in DOMAIN json THEN json.cached ELSE c)
        ELSE IF f = "response_time_ms" THEN ms
        ELSE json[f]]

\* result["cached"] = c; result["response_time_ms"] = ms
Annotate(json, c, ms) ==
    [f \in DOMAIN json \cup {"cached", "response_time_ms"} |->
        IF f = "cached" THEN c
        ELSE IF f = "response_time_ms" THEN ms
        ELSE json[f]]

\* Faulty variant: a request whose key another request is fetching makes no
\* upstream call of its own and is turned away.
CachedStart_SingleFlight(r, op, valid, dict, endpoint, laravel_data) ==
    /\ started
    /\ FreeSlot(r)
    /\ nreq < MaxRequests
    /\ nreq' = nreq + 1
    /\ IF ~valid
       THEN /\ last' = Done([Idle EXCEPT !.op = op, !.params = dict],
                            HttpError(422, "validation error"))
            /\ UNCHANGED <<reqs, sinceClear>>
       ELSE LET cache_key == generate_cache_key(op, dict)
                cached_result == get_cached_result(cache_key)
                req == [Idle EXCEPT !.op = op, !.params = dict, !.cache_key = cache_key]
            IN  /\ sinceClear' =
                     [sinceClear EXCEPT
                        !.fresh = @ \ {cache_key},
                        !.rewritten = @ \ {cache_key},
                        !.first = IF cache_key \in sinceClear.fresh /\ ~Truthy(cached_result)
                                  THEN @ \cup {r} ELSE @]
                /\ IF \E q \in Slots : /\ reqs[q].pc = "await"
                                        /\ reqs[q].op \in CachedOps
                                        /\ reqs[q].cache_key = cache_key
                   THEN /\ last' = Done(req, HttpError(503, "in flight"))
                        /\ UNCHANGED reqs
                   ELSE IF cached_result.tag = "raised"
                   THEN /\ last' = Done(req, InternalServerError)
                        /\ UNCHANGED reqs
                   ELSE IF Truthy(cached_result)
                   THEN /\ \E ms \in ElapsedMs :
                               last' = Done(req, Ok(Annotate(cached_result.value, TRUE, ms)))
                        /\ UNCHANGED reqs
                   ELSE /\ reqs' = [reqs EXCEPT ![r] =
                               [req EXCEPT !.pc = "await",
                                           !.calls = <<Call(endpoint, laravel_data)>>]]
                        /\ last' = Idle
    /\ UNCHANGED <<started, http_client, redis_client, storeUp, cache, origin, producer, completion, derived>>

\* A cached handler from its start to its first await (or to its return).
\* `valid` is the verdict of the request model, `dict` the dict the key is
\* derived from, (endpoint, laravel_data) the upstream call of a miss.
CachedStart(r, op, valid, dict, endpoint, laravel_data) ==
    /\ started
    /\ FreeSlot(r)
    /\ nreq < MaxRequests
    /\ nreq' = nreq + 1
    /\ IF ~valid
       THEN /\ last' = Done([Idle EXCEPT !.op = op, !.params = dict],
                            HttpError(422, "validation error"))
            /\ UNCHANGED <<reqs, sinceClear>>
       ELSE LET cache_key == generate_cache_key(op, dict)
                cached_result == get_cached_result(cache_key)
                req == [Idle EXCEPT !.op = op, !.params = dict, !.cache_key = cache_key]
            IN  /\ sinceClear' =
                     [sinceClear EXCEPT
                        !.fresh = @ \ {cache_key},
                        !.rewritten = @ \ {cache_key},
                        !.first = IF cache_key \in sinceClear.fresh /\ ~Truthy(cached_result)
                                  THEN @ \cup {r} ELSE @]
                /\ IF cached_result.tag = "raised"
                   THEN /\ last' = Done(req, InternalServerError)
                        /\ UNCHANGED reqs
                   ELSE IF Truthy(cached_result)
                   THEN /\ \E ms \in ElapsedMs :
                               last' = Done(req, Ok(Annotate(cached_result.value, TRUE, ms)))
                        /\ UNCHANGED reqs
                   ELSE /\ reqs' = [reqs EXCEPT ![r] =
                               [req EXCEPT !.pc = "await",
                                           !.calls = <<Call(endpoint, laravel_data)>>]]
                        /\ last' = Idle
    /\ UNCHANGED <<started, http_client, redis_client, storeUp, cache, origin, producer, completion, derived>>

search_by_ingredients(r) ==
    \E ingredients \in Texts, limit \in Limits :
        CachedStart(r, "ingredients",
                    ValidText(ingredients, 500) /\ ValidLimit(limit),
                    <<<<"ingredients", JStr(ingredients)>>, <<"limit", JInt(limit)>>>>,
                    "/search/ingredients",
                    <<<<"ingredients", JStr(ingredients)>>, <<"limit", JInt(limit)>>>>)

search_by_cuisine(r) ==
    \E cuisine \in Texts, limit \in Limits :
        CachedStart(r, "cuisine",
                    ValidText(cuisine, 200) /\ ValidLimit(limit),
                    <<<<"cuisine", JStr(cuisine)>>, <<"limit", JInt(limit)>>>>,
                    "/search/cuisine",
                    <<<<"cuisine", JStr(cuisine)>>, <<"limit", JInt(limit)>>>>)

search_by_dish(r) ==
    \E dish \in Texts, limit \in Limits :
        CachedStart(r, "dish",
                    ValidText(dish, 200) /\ ValidLimit(limit),
                    <<<<"dish", JStr(dish)>>, <<"limit", JInt(limit)>>>>,
                    "/search/dish",
                    <<<<"dish", JStr(dish)>>, <<"limit", JInt(limit)>>>>)

general_search(r) ==
    \E query \in Texts, limit \in Limits :
        CachedStart(r, "general",
                    ValidText(query, 500) /\ ValidLimit(limit),
                    <<<<"query", JStr(query)>>, <<"limit", JInt(limit)>>>>,
                    "/search/general",
                    <<<<"q", JStr(query)>>, <<"limit", JInt(limit)>>>>)

hybrid_search(r) ==
    \E query \in Texts, limit \in Limits :
        CachedStart(r, "hybrid",
                    ValidText(query, 500) /\ ValidLimit(limit),
                    <<<<"query", JStr(query)>>, <<"limit", JInt(limit)>>>>,
                    "/search/hybrid",
                    <<<<"q", JStr(query)>>, <<"limit", JInt(limit)>>>>)

find_similar_recipes(r) ==
    \E recipe_id \in RecipeIds, limit \in SimilarLimits :
        CachedStart(r, "similar", TRUE,
                    <<<<"recipe_id", JInt(recipe_id)>>, <<"limit", JInt(limit)>>>>,
                    "/search/similar/" \o IntToStr(recipe_id),
                    <<<<"limit", JInt(limit)>>>>)

\* A cached handler from the return of `await proxy_laravel_request(...)` to
\* its end: the result is annotated, cached and returned; an HTTPException
\* of proxy_laravel_request ends the handler.
CachedResume(r, up) ==
    /\ reqs[r].pc = "await"
    /\ reqs[r].op \in CachedOps
    /\ LET outcome == proxy_laravel_request(up)
           req == [reqs[r] EXCEPT !.calls[1].up = up, !.calls[1].outcome = outcome]
           answered == [sinceClear EXCEPT !.pending = @ \ {r}, !.first = @ \ {r}]
       IN  IF outcome.raised
           THEN /\ last' = Done(req, HttpError(outcome.status_code, outcome.detail))
                /\ sinceClear' = answered
                /\ UNCHANGED <<cache, origin, producer>>
           ELSE \E ms \in ElapsedMsUpstream :
                  LET result == Annotate(outcome.value, FALSE, ms)
                      stored == set_cached_result(req.cache_key, result)
                  IN  IF stored.tag = "raised"
                      THEN /\ last' = Done(req, InternalServerError)
                           /\ sinceClear' = answered
                           /\ UNCHANGED <<cache, origin, producer>>
                      ELSE /\ cache' = stored.value
                           /\ last' = Done(req, Ok(result))
                           /\ origin' = [k \in DOMAIN cache' |->
                                           IF k \in DOMAIN cache /\ cache'[k] = cache[k]
                                           THEN origin[k] ELSE outcome.value]
                           /\ producer' = [k \in DOMAIN cache' |->
                                           IF k \in DOMAIN cache /\ cache'[k] = cache[k]
                                           THEN producer[k]
                                           ELSE [op |-> req.op, params |-> req.params,
                                                 endpoint |-> req.calls[1].endpoint,
                                                 data |-> req.calls[1].data]]
                           /\ sinceClear' =
                                IF /\ r \in sinceClear.pending
                                   /\ req.cache_key \in sinceClear.fresh
                                   /\ cache' # cache
                                THEN [answered EXCEPT !.rewritten = @ \cup {req.cache_key}]
                                ELSE answered
    /\ reqs' = [reqs EXCEPT ![r] = Idle]
    /\ UNCHANGED <<started, http_client, redis_client, storeUp, nreq, completion, derived>>

\* The upstream answers the call of a cached handler.
UpstreamReplies(r) ==
    /\ reqs[r].pc = "await"
    /\ reqs[r].op \in CachedOps
    /\ \E up \in UpstreamBehaviours(reqs[r].calls[1].endpoint,
                                    reqs[r].calls[1].data,
                                    SimpleLists, UpstreamErrorStatuses) :
            CachedResume(r, up)

----------------------------------------------------------------------------
(* EnhancedSearchEngine: enhanced_search *)

\* enhanced_search from its start to `await asyncio.gather(...)`: the three
\* upstream calls are created and awaited together.
enhanced_search(r, RequestLimits) ==
    /\ started
    /\ FreeSlot(r)
    /\ nreq < MaxRequests
    /\ nreq' = nreq + 1
    /\ \E query \in Texts, limit \in RequestLimits :
         LET dict == <<<<"query", JStr(query)>>, <<"limit", JInt(limit)>>>>
         IN  IF ~(ValidText(query, 500) /\ ValidLimit(limit))
             THEN /\ last' = Done([Idle EXCEPT !.op = "enhanced", !.params = dict],
                                  HttpError(422, "validation error"))
                  /\ UNCHANGED reqs
             ELSE /\ reqs' = [reqs EXCEPT ![r] =
                        [Idle EXCEPT
                           !.pc = "await", !.op = "enhanced", !.params = dict,
                           !.calls =
                             <<Call("/search/general",
                                    <<<<"q", JStr(query)>>, <<"limit", JInt(limit \div 2)>>>>),
                               Call("/search/ingredients",
                                    <<<<"ingredients", JStr(query)>>, <<"limit", JInt(limit \div 2)>>>>),
                               Call("/search/dish",
                                    <<<<"dish", JStr(query)>>, <<"limit", JInt(limit \div 2)>>>>)>>]]
                  /\ last' = Idle
    /\ completion' = [completion EXCEPT !.order[r] = <<>>]
    /\ UNCHANGED <<started, http_client, redis_client, storeUp, cache, origin, producer, sinceClear, derived>>

\* Faulty variant: return_exceptions is left out, so the first exception
\* leaves the gather at once and the handler answers it with a 500 while the
\* other tasks have not ended.
SubSearchReplies_FailFast(r, i, Lists, Statuses) ==
    /\ reqs[r].pc = "await"
    /\ reqs[r].op = "enhanced"
    /\ i \in 1..Len(reqs[r].calls)
    /\ reqs[r].calls[i].outcome = Pending
    /\ \E up \in UpstreamBehaviours(reqs[r].calls[i].endpoint, reqs[r].calls[i].data,
                                    Lists, Statuses) :
         LET req == [reqs[r] EXCEPT !.calls[i].up = up,
                                    !.calls[i].outcome = proxy_laravel_request(up)]
         IN  IF req.calls[i].outcome.raised
             THEN /\ reqs' = [reqs EXCEPT ![r] = Idle]
                  /\ last' = Done(req, HttpError(500, "Enhanced search failed"))
             ELSE /\ reqs' = [reqs EXCEPT ![r] = req]
                  /\ last' = Idle
    /\ completion' = IF completion.kept
                     THEN [completion EXCEPT !.order[r] = Append(@, i)]
                     ELSE completion
    /\ UNCHANGED <<started, http_client, redis_client, storeUp, cache, nreq, origin,
                   producer, sinceClear, derived>>

\* Task i of the gather ends: with return_exceptions=True its result or its
\* exception is kept, and the other tasks go on.
SubSearchReplies(r, i, Lists, Statuses) ==
    /\ reqs[r].pc = "await"
    /\ reqs[r].op = "enhanced"
    /\ i \in 1..Len(reqs[r].calls)
    /\ reqs[r].calls[i].outcome = Pending
    /\ \E up \in UpstreamBehaviours(reqs[r].calls[i].endpoint, reqs[r].calls[i].data,
                                    Lists, Statuses) :
         reqs' = [reqs EXCEPT ![r].calls[i].up = up,
                                  ![r].calls[i].outcome = proxy_laravel_request(up)]
    /\ last' = Idle
    /\ completion' = IF completion.kept
                     THEN [completion EXCEPT !.order[r] = Append(@, i)]
                     ELSE completion
    /\ UNCHANGED <<started, http_client, redis_client, storeUp, cache, nreq, origin, producer, sinceClear, derived>>

\* isinstance(result, dict) and "results" in result
IsSuccess(outcome) == ~outcome.raised /\ "results" \in DOMAIN outcome.value

\* combined_results: the results of the successful searches, in task order.
RECURSIVE Combine(_)
Combine(outcomes) ==
    IF outcomes = <<>> THEN <<>>
    ELSE (IF IsSuccess(Head(outcomes)) THEN Head(outcomes).value.results ELSE <<>>)
         \o Combine(Tail(outcomes))

\* Faulty variant: no recipe is dropped.
Unique_KeepsAll(combined_results) ==
    [i \in 1..Len(combined_results) |-> [recipe |-> combined_results[i], first |-> TRUE]]

\* unique_results: the first recipe of each recipe_id.
Unique(combined_results) ==
    SelectSeq([i \in 1..Len(combined_results) |->
                  [recipe |-> combined_results[i],
                   first |-> \A j \in 1..(i - 1) :
                        combined_results[j].recipe_id # combined_results[i].recipe_id]],
              LAMBDA e : e.first)

\* list.sort(key=similarity_score, reverse=True): stable, so recipes of the
\* same score stay in their order.
RECURSIVE InsertDesc(_, _)
InsertDesc(sorted, recipe) ==
    IF sorted = <<>> THEN <<recipe>>
    ELSE IF Head(sorted).similarity_score >= recipe.similarity_score
         THEN <<Head(sorted)>> \o InsertDesc(Tail(sorted), recipe)
         ELSE <<recipe>> \o sorted

\* Faulty variant: the list is left in the order of the combined results.
SortDesc_Unsorted(recipes) == recipes

RECURSIVE SortDesc(_)
SortDesc(recipes) ==
    IF recipes = <<>> THEN <<>>
    ELSE InsertDesc(SortDesc(SubSeq(recipes, 1, Len(recipes) - 1)), recipes[Len(recipes)])

\* Faulty variant: the list is cut to one more than the limit.
Truncate_OffByOne(recipes, limit) ==
    SubSeq(recipes, 1, IF Len(recipes) < limit + 1 THEN Len(recipes) ELSE limit + 1)

\* unique_results[:limit] for limit >= 0
Truncate(recipes, limit) ==
    SubSeq(recipes, 1, IF Len(recipes) < limit THEN Len(recipes) ELSE limit)

UniqueResults(outcomes) ==
    LET marked == Unique(Combine(outcomes))
    IN  [i \in 1..Len(marked) |-> marked[i].recipe]

\* Faulty variant: every search is counted, failed or not.
SuccessfulSearches_CountsAll(outcomes) == Len(outcomes)

\* successful_searches: the outcomes that are a dict with "results".
SuccessfulSearches(outcomes) ==
    Cardinality({i \in 1..Len(outcomes) : IsSuccess(outcomes[i])})

EnhancedResponse(query, limit, outcomes, ms) ==
    LET final_results == Truncate(SortDesc(UniqueResults(outcomes)), limit)
    IN  [query |-> query,
         search_type |-> "enhanced_parallel",
         results |-> final_results,
         count |-> Len(final_results),
         successful_searches |-> SuccessfulSearches(outcomes),
         total_searches |-> Len(outcomes),
         cached |-> FALSE,
         response_time_ms |-> ms]

\* Faulty variant: the combined response is stored in the cache like the others.
EnhancedCombine_Caches(r) ==
    /\ reqs[r].pc = "await"
    /\ reqs[r].op = "enhanced"
    /\ \A i \in 1..Len(reqs[r].calls) : reqs[r].calls[i].outcome # Pending
    /\ \E ms \in ElapsedMsUpstream :
         LET response == EnhancedResponse(
                            reqs[r].params[1][2].v, reqs[r].params[2][2].v,
                            [i \in 1..Len(reqs[r].calls) |-> reqs[r].calls[i].outcome],
                            ms)
             stored == set_cached_result(generate_cache_key("general", reqs[r].params),
                                         response)
         IN  /\ last' = Done(reqs[r], Ok(response))
             /\ cache' = stored.value
             /\ origin' = [k \in DOMAIN cache' |->
                             IF k \in DOMAIN cache THEN origin[k] ELSE response]
             /\ producer' = [k \in DOMAIN cache' |->
                             IF k \in DOMAIN cache THEN producer[k]
                             ELSE [op |-> "enhanced", params |-> reqs[r].params,
                                   endpoint |-> "", data |-> <<>>]]
    /\ reqs' = [reqs EXCEPT ![r] = Idle]
    /\ UNCHANGED <<started, http_client, redis_client, storeUp, nreq, sinceClear, completion, derived>>

\* Faulty variant: the exception of a failed sub-search leaves the gather, and
\* the handler answers it with a 500.
EnhancedCombine_Propagates(r) ==
    /\ reqs[r].pc = "await"
    /\ reqs[r].op = "enhanced"
    /\ \A i \in 1..Len(reqs[r].calls) : reqs[r].calls[i].outcome # Pending
    /\ \E ms \in ElapsedMsUpstream :
         last' = Done(reqs[r],
                      IF \E i \in 1..Len(reqs[r].calls) : reqs[r].calls[i].outcome.raised
                      THEN HttpError(500, "Enhanced search failed")
                      ELSE Ok(EnhancedResponse(
                                reqs[r].params[1][2].v, reqs[r].params[2][2].v,
                                [i \in 1..Len(reqs[r].calls) |-> reqs[r].calls[i].outcome],
                                ms)))
    /\ reqs' = [reqs EXCEPT ![r] = Idle]
    /\ UNCHANGED <<started, http_client, redis_client, storeUp, cache, nreq, origin,
                   producer, sinceClear, completion, derived>>

\* Faulty variant: the results are combined in the order in which the
\* sub-searches ended (as asyncio.as_completed gives them), not in task order.
EnhancedCombine_AsCompleted(r) ==
    /\ reqs[r].pc = "await"
    /\ reqs[r].op = "enhanced"
    /\ \A i \in 1..Len(reqs[r].calls) : reqs[r].calls[i].outcome # Pending
    /\ \E ms \in ElapsedMsUpstream :
         last' = Done(reqs[r],
                      Ok(EnhancedResponse(
                            reqs[r].params[1][2].v, reqs[r].params[2][2].v,
                            [i \in 1..Len(reqs[r].calls) |->
                                reqs[r].calls[IF completion.kept
                                              THEN completion.order[r][i] ELSE i].outcome],
                            ms)))
    /\ reqs' = [reqs EXCEPT ![r] = Idle]
    /\ UNCHANGED <<started, http_client, redis_client, storeUp, cache, nreq, origin,
                   producer, sinceClear, completion, derived>>

\* enhanced_search from the return of the gather to its end.
EnhancedCombine(r) ==
    /\ reqs[r].pc = "await"
    /\ reqs[r].op = "enhanced"
    /\ \A i \in 1..Len(reqs[r].calls) : reqs[r].calls[i].outcome # Pending
    /\ \E ms \in ElapsedMsUpstream :
         last' = Done(reqs[r],
                      Ok(EnhancedResponse(
                            reqs[r].params[1][2].v, reqs[r].params[2][2].v,
                            [i \in 1..Len(reqs[r].calls) |-> reqs[r].calls[i].outcome],
                            ms)))
    /\ reqs' = [reqs EXCEPT ![r] = Idle]
    /\ UNCHANGED <<started, http_client, redis_client, storeUp, cache, nreq, origin, producer, sinceClear, completion, derived>>

\* what a sub-search is answered in the specification of the whole proxy
SubSearchLists == {<<Recipe(1, 2)>>}

----------------------------------------------------------------------------
(* Cache management endpoints *)

Admin(op, resp) == Done([Idle EXCEPT !.op = op], resp)

cache_stats ==
    /\ started
    /\ last' =
         IF ~redis_client
         THEN Admin("cache_stats", Ok([cache_enabled |-> FALSE, message |-> "Redis not available"]))
         ELSE IF ~storeUp                               \* info() raises
         THEN Admin("cache_stats", Ok([cache_enabled |-> FALSE, error |-> "raised"]))
         ELSE Admin("cache_stats", Ok([cache_enabled |-> TRUE, cache_ttl_seconds |-> CACHE_TTL]))
    /\ UNCHANGED <<started, http_client, redis_client, storeUp, cache, reqs, nreq, origin, producer, sinceClear, completion, derived>>

\* Faulty variant: success is reported without the database being flushed.
clear_cache_KeepsEntries ==
    /\ started
    /\ IF ~redis_client
       THEN /\ last' = Admin("clear_cache", Ok([cache_enabled |-> FALSE, message |-> "Redis not available"]))
            /\ UNCHANGED sinceClear
       ELSE IF ~storeUp
       THEN /\ last' = Admin("clear_cache", HttpError(500, "Failed to clear cache"))
            /\ UNCHANGED sinceClear
       ELSE /\ last' = Admin("clear_cache", Ok([success |-> TRUE, message |-> "Cache cleared successfully"]))
            /\ sinceClear' =
                 IF ~sinceClear.kept THEN sinceClear
                 ELSE LET inflight == {r \in Slots : /\ reqs[r].pc = "await"
                                                      /\ reqs[r].op \in CachedOps}
                      IN  [sinceClear EXCEPT
                             !.pending = inflight,
                             !.fresh = DOMAIN cache
                                       \cup {reqs[r].cache_key : r \in inflight},
                             !.rewritten = {},
                             !.first = {}]
    /\ UNCHANGED <<started, http_client, redis_client, storeUp, cache, reqs, nreq,
                   origin, producer, completion, derived>>

clear_cache ==
    /\ started
    /\ IF ~redis_client
       THEN /\ last' = Admin("clear_cache", Ok([cache_enabled |-> FALSE, message |-> "Redis not available"]))
            /\ UNCHANGED <<cache, origin, producer, sinceClear>>
       ELSE IF ~storeUp                                 \* flushdb() raises
       THEN /\ last' = Admin("clear_cache", HttpError(500, "Failed to clear cache"))
            /\ UNCHANGED <<cache, origin, producer, sinceClear>>
       ELSE /\ cache' = EmptyCache                      \* flushdb()
            /\ origin' = EmptyCache
            /\ producer' = EmptyCache
            /\ sinceClear' =
                 IF ~sinceClear.kept THEN sinceClear
                 ELSE LET inflight == {r \in Slots : /\ reqs[r].pc = "await"
                                                      /\ reqs[r].op \in CachedOps}
                      IN  [sinceClear EXCEPT
                             !.pending = inflight,
                             !.fresh = DOMAIN cache
                                       \cup {reqs[r].cache_key : r \in inflight},
                             !.rewritten = {},
                             !.first = {}]
            /\ last' = Admin("clear_cache", Ok([success |-> TRUE, message |-> "Cache cleared successfully"]))
    /\ UNCHANGED <<started, http_client, redis_client, storeUp, reqs, nreq, completion, derived>>

----------------------------------------------------------------------------
(* The environment: the Redis server and the passing of time *)

StoreFails ==
    /\ storeUp
    /\ storeUp' = FALSE
    /\ last' = Idle
    /\ UNCHANGED <<started, http_client, redis_client, cache, reqs, nreq, origin, producer, sinceClear, completion, derived>>

StoreRecovers ==
    /\ ~storeUp
    /\ storeUp' = TRUE
    /\ last' = Idle
    /\ UNCHANGED <<started, http_client, redis_client, cache, reqs, nreq, origin, producer, sinceClear, completion, derived>>

\* TickStep seconds pass: Redis counts every TTL down and drops the entries
\* whose TTL has run out.
Tick ==
    /\ cache # EmptyCache
    /\ LET live == {k \in DOMAIN cache : cache[k].ttl > TickStep}
       IN  /\ cache' = [k \in live |-> [cache[k] EXCEPT !.ttl = @ - TickStep]]
           /\ origin' = [k \in live |-> origin[k]]
           /\ producer' = [k \in live |-> producer[k]]
    /\ last' = Idle
    /\ UNCHANGED <<started, http_client, redis_client, storeUp, reqs, nreq, sinceClear, completion, derived>>

Next ==
    \/ startup_event
    \/ \E r \in Slots : search_by_ingredients(r)
    \/ \E r \in Slots : search_by_cuisine(r)
    \/ \E r \in Slots : search_by_dish(r)
    \/ \E r \in Slots : general_search(r)
    \/ \E r \in Slots : hybrid_search(r)
    \/ \E r \in Slots : find_similar_recipes(r)
    \/ \E r \in Slots : UpstreamReplies(r)
    \/ \E r \in Slots : enhanced_search(r, Limits)
    \/ \E r \in Slots, i \in 1..3 : SubSearchReplies(r, i, SubSearchLists, {})
    \/ \E r \in Slots : EnhancedCombine(r)
    \/ cache_stats
    \/ clear_cache
    \/ StoreFails
    \/ StoreRecovers
    \/ Tick

Spec == Init /\ [][Next]_vars

\* Enhanced search alone: one request, with every result list the
\* sub-searches can return and every order in which they can end.
NextEnhanced ==
    \/ startup_event
    \/ nreq = 0 /\ enhanced_search(1, EnhancedLimits)
    \/ \E i \in 1..3 : SubSearchReplies(1, i, ResultLists, UpstreamErrorStatuses)
    \/ EnhancedCombine(1)

SpecEnhanced == Init /\ [][NextEnhanced]_vars

\* The cached endpoints and /cache/clear, with the history of the clear kept.
InitClear ==
    /\ InitProxy
    /\ sinceClear = [NotCleared EXCEPT !.kept = TRUE]
    /\ completion = NoCompletion
    /\ derived = NotDerived

NextClear ==
    \/ startup_event
    \/ \E r \in Slots : search_by_ingredients(r)
    \/ \E r \in Slots : search_by_cuisine(r)
    \/ \E r \in Slots : search_by_dish(r)
    \/ \E r \in Slots : general_search(r)
    \/ \E r \in Slots : hybrid_search(r)
    \/ \E r \in Slots : find_similar_recipes(r)
    \/ \E r \in Slots : UpstreamReplies(r)
    \/ clear_cache
    \/ StoreFails
    \/ StoreRecovers
    \/ Tick

SpecClear == InitClear /\ [][NextClear]_vars

\* Enhanced search alone, one request after the other, with the order in
\* which the sub-searches end kept.  A sub-search returns one of two lists
\* that share recipe 1 with different scores, or fails.
FanOutLists == { <<Recipe(1, 1)>>, <<Recipe(1, 2), Recipe(2, 2)>> }
FanOutStatuses == {503}

InitFanOut ==
    /\ InitProxy
    /\ sinceClear = NotCleared
    /\ completion = [NoCompletion EXCEPT !.kept = TRUE]
    /\ derived = NotDerived

NextFanOut ==
    \/ startup_event
    \/ nreq = 0 /\ enhanced_search(1, EnhancedLimits)
    \/ \E i \in 1..3 : SubSearchReplies(1, i, FanOutLists, FanOutStatuses)
    \/ EnhancedCombine(1)

\* Every upstream call ends, with an answer or with an error (the client's
\* timeout of 30 seconds at the latest), and the event loop resumes the
\* handler once the gather is complete.
SpecFanOut ==
    /\ InitFanOut
    /\ [][NextFanOut]_vars
    /\ \A i \in 1..3 : WF_vars(SubSearchReplies(1, i, FanOutLists, FanOutStatuses))
    /\ WF_vars(EnhancedCombine(1))

----------------------------------------------------------------------------
(* Key derivation alone: generate_cache_key applied to a mapping and to the *)
(* same mapping built in another insertion order.                          *)

KeyTexts == {"egg", "rice"}
KeyLimits == {1, 2, 3}
KeyRecipeIds == {7, 8}
KeySimilarLimits == {0, 1, 5}

KeyInput(endpoint, data) == [endpoint |-> endpoint, data |-> data]

\* The (endpoint, dict) pairs of the six handlers, and two dicts whose limit
\* is the string form of a number: generate_cache_key takes Dict[str, Any].
KeyInputs ==
    {KeyInput("ingredients", <<<<"ingredients", JStr(t)>>, <<"limit", JInt(l)>>>>) :
        t \in KeyTexts, l \in KeyLimits}
    \cup {KeyInput("cuisine", <<<<"cuisine", JStr(t)>>, <<"limit", JInt(l)>>>>) :
        t \in KeyTexts, l \in KeyLimits}
    \cup {KeyInput("dish", <<<<"dish", JStr(t)>>, <<"limit", JInt(l)>>>>) :
        t \in KeyTexts, l \in KeyLimits}
    \cup {KeyInput(e, <<<<"query", JStr(t)>>, <<"limit", JInt(l)>>>>) :
        e \in {"general", "hybrid"}, t \in KeyTexts, l \in KeyLimits}
    \cup {KeyInput("similar", <<<<"recipe_id", JInt(i)>>, <<"limit", JInt(l)>>>>) :
        i \in KeyRecipeIds, l \in KeySimilarLimits}
    \cup {KeyInput("similar", <<<<"recipe_id", JInt(7)>>, <<"limit", JStr("5")>>>>),
          KeyInput("general", <<<<"query", JStr("egg")>>, <<"limit", JStr("1")>>>>)}

\* The same items inserted in the opposite order.
Reversed(data) == [i \in 1..Len(data) |-> data[Len(data) + 1 - i]]

InitKey ==
    /\ InitProxy
    /\ sinceClear = NotCleared
    /\ completion = NoCompletion
    /\ derived \in UNION {
          {[pc |-> "input", endpoint |-> x.endpoint, data |-> x.data, reordered |-> d] :
              d \in {x.data, Reversed(x.data)}} : x \in KeyInputs}

\* generate_cache_key is called with the mapping and with the reordered one.
DeriveKeys ==
    /\ derived.pc = "input"
    /\ derived' = [pc |-> "keys",
                   endpoint |-> derived.endpoint,
                   data |-> derived.data,
                   reordered |-> derived.reordered,
                   key |-> generate_cache_key(derived.endpoint, derived.data),
                   key_reordered |-> generate_cache_key(derived.endpoint, derived.reordered)]
    /\ UNCHANGED <<started, http_client, redis_client, storeUp, cache, reqs, nreq, last,
                   origin, producer, sinceClear, completion>>

NextKey == DeriveKeys

SpecKey == InitKey /\ [][NextKey]_vars

----------------------------------------------------------------------------
(* The proxy, and beside it key derivation for two different requests.      *)

\* Two (endpoint, dict) pairs that differ in the endpoint or in a value.
InitPair ==
    /\ InitProxy
    /\ sinceClear = NotCleared
    /\ completion = NoCompletion
    /\ derived \in {[pc |-> "pair", a |-> x, b |-> y] : x \in KeyInputs, y \in KeyInputs}
    /\ derived.a # derived.b

\* generate_cache_key is called for each of the two: the string that is
\* hashed, and the key.
DerivePair ==
    /\ derived.pc = "pair"
    /\ derived' = [pc |-> "paired",
                   a |-> derived.a,
                   b |-> derived.b,
                   string_a |-> CacheString(derived.a.endpoint, derived.a.data),
                   string_b |-> CacheString(derived.b.endpoint, derived.b.data),
                   key_a |-> generate_cache_key(derived.a.endpoint, derived.a.data),
                   key_b |-> generate_cache_key(derived.b.endpoint, derived.b.data)]
    /\ UNCHANGED <<started, http_client, redis_client, storeUp, cache, reqs, nreq, last,
                   origin, producer, sinceClear, completion>>

InitIsolation == Init \/ InitPair

NextIsolation ==
    \/ derived = NotDerived /\ Next
    \/ DerivePair

SpecIsolation == InitIsolation /\ [][NextIsolation]_vars

----------------------------------------------------------------------------
(* Properties *)

CacheReachable == redis_client /\ storeUp

\* The last step answered a request to a cached endpoint.
CachedAnswered == last.pc = "done" /\ last.op \in CachedOps

\* A payload without the two fields the handler sets.
Strip(body) == [f \in DOMAIN body \ {"cached", "response_time_ms"} |-> body[f]]

\* The request this step receives: answered at once (last') or awaiting.
Received ==
    IF last'.pc = "done" THEN last'
    ELSE reqs'[CHOOSE r \in Slots : reqs[r].pc = "idle" /\ reqs'[r].pc = "await"]

\* C1: with the store reachable, a cached-endpoint request whose upstream
\* call succeeds returns cached=false and leaves its result stored under its
\* key; an entry goes away only when it expires or the cache is cleared; and a
\* request whose key is stored is answered at once with cached=true and
\* without an upstream call.
C1_MissThenHit ==
    [][ /\ \A r \in Slots :
             ( /\ reqs[r].pc = "await" /\ reqs[r].op \in CachedOps
               /\ reqs'[r].pc = "idle"
               /\ last'.calls[1].up.kind = "json"
               /\ CacheReachable )
             => /\ last'.resp.status = 200
                /\ last'.resp.body.cached = FALSE
                /\ last'.cache_key \in DOMAIN cache'
                /\ JsonLoads(cache'[last'.cache_key].value) = last'.resp.body
        /\ (\E k \in DOMAIN cache : k \notin DOMAIN cache') => (Tick \/ clear_cache)
        /\ ( /\ nreq' = nreq + 1
             /\ Received.op \in CachedOps
             /\ Received.cache_key \in DOMAIN cache
             /\ CacheReachable )
           => /\ last' = Received
              /\ last'.resp.status = 200
              /\ last'.resp.body.cached = TRUE
              /\ last'.calls = <<>>
              /\ reqs' = reqs
      ]_vars

\* A request to /search/similar was answered from the cache.
C1_Witness ==
    /\ CachedAnswered /\ last.op = "similar"
    /\ last.resp.status = 200 /\ last.resp.body.cached = TRUE
    /\ last.calls = <<>>
    /\ last.cache_key \in DOMAIN cache

\* C2: the payload of a cache hit equals, in every field but cached and
\* response_time_ms, the payload the upstream returned to the request that
\* wrote the entry.
C2_CacheTransparency ==
    (CachedAnswered /\ last.resp.status = 200 /\ last.resp.body.cached)
    => /\ last.cache_key \in DOMAIN origin
       /\ Strip(last.resp.body) = origin[last.cache_key]

\* A hit whose response time differs from the one stored with the entry.
C2_Witness ==
    /\ CachedAnswered /\ last.resp.status = 200 /\ last.resp.body.cached
    /\ last.resp.body.count > 0
    /\ last.resp.body.response_time_ms
         # JsonLoads(cache[last.cache_key].value).response_time_ms

\* C3: while the store is unreachable (redis_client unset, or get/set
\* raising), a valid request to a cached endpoint calls the upstream, and its
\* answer is the upstream's: the payload with cached=false, or the upstream's
\* failure; the cache plays no part.
C3_Degradation ==
    [][ /\ ( /\ nreq' = nreq + 1
             /\ Received.op \in CachedOps
             /\ Received.cache_key # ""
             /\ ~CacheReachable )
           => /\ Received.pc = "await"
              /\ Len(Received.calls) = 1
        /\ \A r \in Slots :
             ( /\ reqs[r].pc = "await" /\ reqs[r].op \in CachedOps
               /\ reqs'[r].pc = "idle"
               /\ ~CacheReachable )
             => /\ cache' = cache
                /\ LET up == last'.calls[1].up
                   IN  /\ up.kind = "json"
                          => /\ last'.resp.status = 200
                             /\ last'.resp.body.cached = FALSE
                             /\ Strip(last'.resp.body) = up.json
                       /\ up.kind = "status" => last'.resp.status = up.status_code
                       /\ up.kind = "request_error" => last'.resp.status = 500
      ]_vars

\* A fresh answer given while the server is down, with an entry for the key
\* in the database.
C3_Witness ==
    /\ CachedAnswered /\ last.resp.status = 200 /\ ~last.resp.body.cached
    /\ redis_client /\ ~storeUp
    /\ last.cache_key \in DOMAIN cache

\* C4: when the upstream call of a cached-endpoint request fails, the
\* request ends with that failure and the cache is left as it was.
C4_FailureNotCached ==
    [][ \A r \in Slots :
          ( /\ reqs[r].pc = "await" /\ reqs[r].op \in CachedOps
            /\ reqs'[r].pc = "idle"
            /\ last'.calls[1].up.kind # "json" )
          => /\ last'.resp.status # 200
             /\ last'.calls[1].outcome.raised
             /\ last'.resp.status = last'.calls[1].outcome.status_code
             /\ cache' = cache
      ]_vars

\* An upstream failure answered while the store is reachable and holds an
\* entry for the request's key.
C4_Witness ==
    /\ CachedAnswered /\ last.calls # <<>>
    /\ last.calls[1].up.kind # "json"
    /\ CacheReachable
    /\ last.cache_key \in DOMAIN cache

\* C5: a single-operation search endpoint whose upstream call ends with the
\* error status s fails with s; one whose upstream call cannot be made or
\* times out fails with 500; a success payload is returned only for an
\* upstream success.
C5_StatusPropagation ==
    (CachedAnswered /\ last.calls # <<>>)
    => LET up == last.calls[1].up
       IN  /\ up.kind = "status" => last.resp.status = up.status_code
           /\ up.kind = "request_error" => last.resp.status = 500
           /\ last.resp.status = 200 => up.kind = "json"

\* An upstream 404 passed on.
C5_Witness ==
    /\ CachedAnswered /\ last.calls # <<>>
    /\ last.calls[1].up.kind = "status"
    /\ last.calls[1].up.status_code = 404
    /\ last.resp.status = 404

\* The last step answered an enhanced search with a success.
EnhancedAnswered ==
    last.pc = "done" /\ last.op = "enhanced" /\ last.resp.status = 200

\* The outcomes of the three sub-searches of the request answered last.
Outcomes == [i \in 1..Len(last.calls) |-> last.calls[i].outcome]

\* The recipes of the sub-searches that succeeded, in strategy order.
Pool == Combine(Outcomes)

PoolIds == {Pool[i].recipe_id : i \in 1..Len(Pool)}

\* C6: no two results of an enhanced search response have the same recipe_id.
C6_Dedup ==
    EnhancedAnswered
    => LET results == last.resp.body.results
       IN  \A i, j \in 1..Len(results) :
              i # j => results[i].recipe_id # results[j].recipe_id

\* Two sub-searches returned the same recipe, and two recipes are answered.
C6_Witness ==
    /\ EnhancedAnswered
    /\ Len(Pool) > Cardinality(PoolIds)
    /\ Len(last.resp.body.results) = 2

\* C7: similarity_score never increases along the results of an enhanced
\* search response.
C7_Ordering ==
    EnhancedAnswered
    => LET results == last.resp.body.results
       IN  \A i \in 1..(Len(results) - 1) :
              results[i].similarity_score >= results[i + 1].similarity_score

\* Three recipes were found, the first with the lowest score, and the
\* response is cut to two of them with different scores.
C7_Witness ==
    /\ EnhancedAnswered
    /\ Cardinality(PoolIds) = 3
    /\ Pool[1].similarity_score < Pool[Len(Pool)].similarity_score
    /\ Len(last.resp.body.results) = 2
    /\ last.resp.body.results[1].similarity_score
         > last.resp.body.results[2].similarity_score

\* The sub-searches of the request answered last that failed.
Failed == {i \in 1..Len(last.calls) : last.calls[i].up.kind # "json"}

\* C8: when exactly one of the three sub-searches fails, the response is a
\* success with successful_searches=2 and total_searches=3, and every result
\* is a recipe of the payload of a sub-search that succeeded.
C8_PartialFailure ==
    (last.pc = "done" /\ last.op = "enhanced" /\ Len(last.calls) = 3
        /\ Cardinality(Failed) = 1)
    => /\ last.resp.status = 200
       /\ last.resp.body.successful_searches = 2
       /\ last.resp.body.total_searches = 3
       /\ \A i \in 1..Len(last.resp.body.results) :
            \E c \in (1..3) \ Failed :
               \E j \in 1..Len(last.calls[c].up.json.results) :
                  last.resp.body.results[i] = last.calls[c].up.json.results[j]

\* The second sub-search failed with a 503 and the other two gave results.
C8_Witness ==
    /\ EnhancedAnswered
    /\ Failed = {2}
    /\ last.calls[2].up.kind = "status"
    /\ Len(last.resp.body.results) = 2

\* C9: in a successful enhanced search response, count is the length of
\* results and is at most the limit of the request.
C9_CountWithinLimit ==
    EnhancedAnswered
    => /\ last.resp.body.count = Len(last.resp.body.results)
       /\ last.resp.body.count <= last.params[2][2].v

\* Sub-searches asked for one recipe returned two each, three different
\* recipes in all, and the response is cut to the limit of 2.
C9_Witness ==
    /\ EnhancedAnswered
    /\ last.params[2][2].v = 2
    /\ \E i \in 1..3 : /\ last.calls[i].up.kind = "json"
                       /\ Len(last.calls[i].up.json.results) > last.calls[i].data[2][2].v
    /\ Cardinality(PoolIds) = 3
    /\ last.resp.body.count = 2

\* C10: no step of an enhanced search changes the cache; a valid enhanced
\* search request always makes its three upstream calls, whatever the cache
\* holds, and its response has cached=false.
C10_EnhancedNeverCached ==
    [][ /\ \A r \in Slots :
             (reqs'[r] # reqs[r] /\ "enhanced" \in {reqs[r].op, reqs'[r].op})
             => cache' = cache
        /\ (last' # last /\ last'.op = "enhanced") => cache' = cache
        /\ ( /\ nreq' = nreq + 1
             /\ Received.op = "enhanced"
             /\ ValidText(Received.params[1][2].v, 500)
             /\ ValidLimit(Received.params[2][2].v) )
           => /\ Received.pc = "await"
              /\ Len(Received.calls) = 3
              /\ \A i \in 1..3 : Received.calls[i].outcome = Pending
        /\ (last'.pc = "done" /\ last'.op = "enhanced" /\ last'.resp.status = 200)
           => /\ last'.resp.body.cached = FALSE
              /\ Len(last'.calls) = 3
              /\ \A i \in 1..3 : last'.calls[i].up # NoAnswer
      ]_vars

\* An enhanced search answered while the cache holds the general search of
\* the same query and limit.
C10_Witness ==
    /\ EnhancedAnswered
    /\ CacheReachable
    /\ generate_cache_key("general", last.params) \in DOMAIN cache

\* A valid request to a cached endpoint is received in this step.
CachedReceived == nreq' = nreq + 1 /\ Received.op \in CachedOps /\ Received.cache_key # ""

\* The request received in this step goes to the upstream: it is not answered
\* from the cache.
ReceivedMisses ==
    /\ Received.pc = "await"
    /\ Len(Received.calls) = 1
    /\ Received.calls[1].outcome = Pending
    /\ last'.pc # "done"

C12_KeyDeterminism ==
    derived.pc = "keys" => derived.key = derived.key_reordered

\* Keys were derived for /search/general from (query, limit) as request.dict()
\* gives it, which is not the sorted order, and from (limit, query).
C12_Witness ==
    /\ derived.pc = "keys"
    /\ derived.endpoint = "general"
    /\ derived.data[1][1] = "query"
    /\ derived.reordered[1][1] = "limit"
    /\ derived.key = MD5("general:{\"limit\": 2, \"query\": \"rice\"}")

\* The length bound of the text field of a search endpoint.
TextBound(op) == IF op \in {"cuisine", "dish"} THEN 200 ELSE 500

\* A search request whose limit is outside [1, 50] or whose text is empty or
\* too long.  /search/similar has a recipe id in place of a text.
OutOfBounds(req) ==
    IF req.op = "similar" THEN ~ValidLimit(req.params[2][2].v)
    ELSE \/ ~ValidText(req.params[1][2].v, TextBound(req.op))
         \/ ~ValidLimit(req.params[2][2].v)

\* C13: on every search endpoint, /search/similar included, a request that
\* is out of bounds is answered at once with a 4xx error: no upstream call is
\* made for it and the cache is left as it was.
C13_ValidationFailsFast ==
    [][ (nreq' = nreq + 1 /\ OutOfBounds(Received))
        => /\ last' = Received
           /\ last'.resp.status >= 400 /\ last'.resp.status < 500
           /\ last'.calls = <<>>
           /\ reqs' = reqs
           /\ cache' = cache
      ]_vars

\* Every command sent to the Redis server raises.
StoreRaises == redis_client /\ ~storeUp

\* C14: an endpoint that touches the store while its commands raise still
\* answers without an error: /cache/clear with success=false, /cache/stats
\* with a body, and a cached search endpoint with whatever the upstream gave
\* (its only failures are a rejected request and a failed upstream call).
C14_StoreErrorsAbsorbed ==
    (last.pc = "done" /\ StoreRaises)
    => /\ last.op = "clear_cache"
          => /\ last.resp.status = 200
             /\ last.resp.body.success = FALSE
       /\ last.op = "cache_stats" => last.resp.status = 200
       /\ (last.op \in CachedOps /\ last.resp.status # 200)
          => \/ last.cache_key = ""
             \/ /\ last.calls # <<>>
                /\ last.calls[1].up.kind # "json"

\* The entry of the combined results, in strategy order (general,
\* ingredients, dish), that comes first with this recipe_id.
FirstInPool(recipe_id) ==
    Pool[CHOOSE j \in 1..Len(Pool) :
            /\ Pool[j].recipe_id = recipe_id
            /\ \A m \in 1..(j - 1) : Pool[m].recipe_id # recipe_id]

\* C15: every result of an enhanced search is the first entry with its
\* recipe_id in strategy order, in whatever order the three sub-searches have
\* ended and whatever the scores of the later entries.
C15_FirstInStrategyOrder ==
    EnhancedAnswered
    => \A i \in 1..Len(last.resp.body.results) :
          last.resp.body.results[i] = FirstInPool(last.resp.body.results[i].recipe_id)

\* The dish search ended first and returned recipe 1 with score 2, the
\* general search ended last and returned it with score 1, and the response
\* holds recipe 1 with score 1.
C15_Witness ==
    /\ EnhancedAnswered
    /\ completion.order[1] = <<3, 2, 1>>
    /\ last.calls[1].up.kind = "json" /\ last.calls[3].up.kind = "json"
    /\ last.calls[1].up.json.results = <<Recipe(1, 1)>>
    /\ last.calls[3].up.json.results[1] = Recipe(1, 2)
    /\ \E i \in 1..Len(last.resp.body.results) :
          last.resp.body.results[i] = Recipe(1, 1)

\* C16: whatever the three sub-searches of an enhanced search have done, the
\* response is a success with total_searches=3 and successful_searches the
\* number of sub-searches that did not fail; when all three have failed,
\* results is empty and count is 0.
C16_FailuresNeverEscalate ==
    (last.pc = "done" /\ last.op = "enhanced" /\ Len(last.calls) = 3)
    => /\ last.resp.status = 200
       /\ last.resp.body.total_searches = 3
       /\ last.resp.body.successful_searches = 3 - Cardinality(Failed)
       /\ Cardinality(Failed) = 3
          => /\ last.resp.body.results = <<>>
             /\ last.resp.body.count = 0

\* All three sub-searches have failed, with a 404, a 503 and a request error.
C16_Witness ==
    /\ EnhancedAnswered
    /\ Failed = {1, 2, 3}
    /\ last.calls[1].up.kind = "status" /\ last.calls[1].up.status_code = 404
    /\ last.calls[2].up.kind = "status" /\ last.calls[2].up.status_code = 503
    /\ last.calls[3].up.kind = "request_error"
    /\ last.resp.body.successful_searches = 0

\* The sub-searches of the request in slot r that have not ended.
Unresolved(r) == {i \in 1..Len(reqs[r].calls) : reqs[r].calls[i].outcome = Pending}

\* C17: a valid enhanced search launches its three upstream calls; the end
\* of one call, failed or not, leaves the other calls as they are; a request
\* that made calls is answered only when all three have ended; and, every
\* upstream call ending at some time, every enhanced search in flight is
\* answered.
C17_FanOutBarrier ==
    /\ [][ /\ (reqs[1].pc = "idle" /\ reqs'[1].pc = "await")
              => Unresolved(1)' = {1, 2, 3}
           /\ (reqs[1].pc = "await" /\ reqs'[1].pc = "await")
              => /\ Cardinality(Unresolved(1) \ Unresolved(1)') <= 1
                 /\ \A i \in 1..3 :
                      i \in Unresolved(1)'
                      \/ reqs'[1].calls[i].up # NoAnswer
           /\ (reqs[1].pc = "await" /\ reqs'[1].pc = "idle")
              => /\ Unresolved(1) = {}
                 /\ last'.pc = "done" /\ last'.op = "enhanced"
                 /\ \A i \in 1..3 : last'.calls[i].up # NoAnswer
         ]_vars
    /\ (reqs[1].pc = "await") ~> (reqs[1].pc = "idle" /\ last.pc = "done")

\* The general search was the first to end, with a failure; the other two
\* ended after it with results, and the request is answered.
C17_Witness ==
    /\ EnhancedAnswered
    /\ completion.order[1][1] = 1
    /\ Failed = {1}
    /\ last.resp.body.successful_searches = 2
    /\ last.resp.body.count > 0

\* A request is answered from the cache in this step.
AnsweredFromCache ==
    /\ nreq' = nreq + 1
    /\ last'.pc = "done"
    /\ last'.op \in CachedOps
    /\ last'.resp.status = 200
    /\ last'.resp.body.cached = TRUE

\* Key k is created or overwritten in this step: it is new, or its payload
\* differs, or its remaining TTL has grown.
Written(k) ==
    /\ k \in DOMAIN cache'
    /\ \/ k \notin DOMAIN cache
       \/ cache'[k].value # cache[k].value
       \/ cache'[k].ttl > cache[k].ttl

\* C18: a request answered from the cache makes no upstream call and leaves
\* the store as it is, payloads and remaining TTLs included; an entry is
\* created or overwritten only by the return of a request that had missed and
\* whose upstream call succeeded, under that request's key, and always with a
\* TTL of CACHE_TTL (3600) seconds.
C18_HitHasNoEffect ==
    [][ /\ AnsweredFromCache
           => /\ cache' = cache
              /\ reqs' = reqs
              /\ last'.calls = <<>>
        /\ \A k \in DOMAIN cache' :
             Written(k)
             => /\ \E r \in Slots :
                     /\ reqs[r].pc = "await" /\ reqs[r].op \in CachedOps
                     /\ reqs[r].cache_key = k
                     /\ Len(reqs[r].calls) = 1
                     /\ reqs'[r].pc = "idle"
                /\ last'.pc = "done"
                /\ last'.cache_key = k
                /\ last'.calls[1].up.kind = "json"
                /\ last'.resp.status = 200
                /\ last'.resp.body.cached = FALSE
                /\ cache'[k].ttl = CACHE_TTL
                /\ \A j \in DOMAIN cache' \ {k} : ~Written(j)
      ]_vars

\* A request answered from the cache, without an upstream call, while its
\* entry has less than the full TTL left: the hit has not renewed it.
C18_Witness ==
    /\ CachedAnswered
    /\ last.resp.status = 200
    /\ last.resp.body.cached = TRUE
    /\ last.calls = <<>>
    /\ last.cache_key \in DOMAIN cache
    /\ cache[last.cache_key].ttl < CACHE_TTL
    /\ cache[last.cache_key].ttl > 0

\* The requests the state holds with a key: those awaiting their upstream
\* call and the one just answered.
Keyed ==
    {reqs[r] : r \in {q \in Slots : reqs[q].pc = "await" /\ reqs[q].op \in CachedOps}}
    \cup (IF CachedAnswered /\ last.cache_key # "" THEN {last} ELSE {})

\* The upstream endpoint the handler of `op` calls for `params`.
LaravelEndpoint(op, params) ==
    IF op = "similar" THEN "/search/similar/" \o IntToStr(params[1][2].v)
    ELSE "/search/" \o op

UpstreamCalls ==
    UNION {{reqs[r].calls[i] : i \in 1..Len(reqs[r].calls)} : r \in Slots}
    \cup {last.calls[i] : i \in 1..Len(last.calls)}

\* The values sent to the upstream as "limit".
SentLimits ==
    UNION {{c.data[i][2].v : i \in {j \in 1..Len(c.data) : c.data[j][1] = "limit"}} :
              c \in UpstreamCalls}

\* C20: every limit the proxy sends to the upstream lies in [1,50], the
\* sub-limit limit // 2 of enhanced search and the limit of the similar
\* recipes endpoint included.
C20_UpstreamLimitsInRange ==
    \A l \in SentLimits : l >= 1 /\ l <= 50

\* The response answered last carries cached=true.
CarriesCachedTrue ==
    /\ "cached" \in DOMAIN last.resp.body
    /\ last.resp.body.cached = TRUE

\* C21: a request that the handler of a cached endpoint has answered carries
\* cached=true exactly when the handler made no upstream call for it; no
\* other response of a cached endpoint carries cached=true; and every
\* payload in the cache carries cached=false.
C21_CachedFlagAccurate ==
    /\ (CachedAnswered /\ last.cache_key # "")
       => (CarriesCachedTrue <=> last.calls = <<>>)
    /\ (CachedAnswered /\ CarriesCachedTrue)
       => /\ last.cache_key # ""
          /\ last.resp.status = 200
    /\ \A k \in DOMAIN cache :
         LET stored == JsonLoads(cache[k].value)
         IN  "cached" \in DOMAIN stored /\ stored.cached = FALSE

\* A request answered with cached=true and without an upstream call from an
\* entry whose stored payload carries cached=false.
C21_Witness ==
    /\ CachedAnswered
    /\ CarriesCachedTrue
    /\ last.calls = <<>>
    /\ last.cache_key \in DOMAIN cache
    /\ JsonLoads(cache[last.cache_key].value).cached = FALSE

\* Another request with the key of the request received in this step is
\* awaiting its upstream call.
SameKeyInFlight ==
    \E q \in Slots :
        /\ reqs[q].pc = "await"
        /\ reqs[q].op \in CachedOps
        /\ reqs[q].cache_key = Received.cache_key

\* C22 as stated: with the store reachable, a request that arrives while the
\* upstream call of another request with the same key is in flight does not
\* itself invoke the upstream.
C22_SingleUpstreamCallPerKey ==
    [][ (CachedReceived /\ CacheReachable /\ SameKeyInFlight) => ~ReceivedMisses ]_vars

\* C22, amended: with the store reachable, whether a request invokes the
\* upstream depends on the store alone: it does exactly when no entry is
\* stored under its key, so a request that arrives while the upstream call of
\* another request with the same key is in flight, and before its result is
\* stored, makes its own call to the same endpoint with the same data.
C22_EachMissCallsUpstream ==
    [][ (CachedReceived /\ CacheReachable)
        => /\ ReceivedMisses <=> Received.cache_key \notin DOMAIN cache
           /\ (SameKeyInFlight /\ Received.cache_key \notin DOMAIN cache)
              => \A q \in Slots :
                   ( /\ reqs[q].pc = "await"
                     /\ reqs[q].op \in CachedOps
                     /\ reqs[q].cache_key = Received.cache_key )
                   => /\ Received.calls[1].endpoint = reqs[q].calls[1].endpoint
                      /\ Received.calls[1].data = reqs[q].calls[1].data
      ]_vars

\* Two requests with the same key await an upstream call each, with the
\* store reachable and nothing stored under the key.
C22_Witness ==
    /\ CacheReachable
    /\ reqs[1].pc = "await" /\ reqs[1].op \in CachedOps
    /\ reqs[2].pc = "await" /\ reqs[2].op \in CachedOps
    /\ reqs[1].cache_key = reqs[2].cache_key
    /\ reqs[1].cache_key \notin DOMAIN cache
    /\ reqs[1].calls[1].outcome = Pending
    /\ reqs[2].calls[1].outcome = Pending

====
